---- MODULE Spec2Model ----
(***************************************************************************)
(* pyhologres: the fluent query builder (query.py) and the table           *)
(* lifecycle of the local and the remote connection (db.py, remote/db.py). *)
(*                                                                         *)
(* Python objects are modelled as heap cells: a query is an index into     *)
(* `queries`, the list object held in its _where_conditions attribute is   *)
(* an index into `lists`, so that sharing a list between two queries is    *)
(* something the model can express.                                        *)
(***************************************************************************)
EXTENDS Integers, Sequences, FiniteSets, TLC

VARIABLES
    queries,    \* heap of HologresQuery objects
    lists,      \* heap of the Python lists held in _where_conditions
    hist,       \* per query: the query it was derived from and the where() arguments of its chain
    last,       \* the call that ran last: method, receiver, returned object, argument
    pre,        \* the fields of the receiver when that call started
    outcome,    \* how that call ended: "none", "ok" or the exception raised
    conn,       \* the connection object: local (SQL engine) or remote (HTTP client)
    tables,     \* the database behind the connection: table name |-> rows, or absent
    issued,     \* statements / HTTP requests the last connection call sent to the backend
    dbpre,      \* `tables` when the last connection call started
    dbcall,     \* the last connection or table call: method, arguments and the exception it raised
    http,       \* the HTTP client: its retry configuration, sessions and the request in progress
    ahttp,      \* the asynchronous request in progress on that client
    link,       \* what the last connect() call built, and whether it was closed
    threads     \* calls running on worker threads against one shared query object

vars == <<queries, lists, hist, last, pre, outcome, conn, tables, issued, dbpre, dbcall, http,
          ahttp, link, threads>>
qvars == <<queries, lists, hist, last, pre, outcome>>
dbvars == <<conn, tables, issued, dbpre, dbcall>>
httpvars == <<http, ahttp, link>>

---------------------------------------------------------------------------
(* Bounds *)
MaxQueries == 3     \* query objects on the heap
MaxLowered == 2     \* query objects on the heap when materializations run
MaxArg == 1         \* largest integer argument of limit/offset/nprobes/refine_factor
MaxRows == 2        \* rows in one data argument
MaxTableRows == 2   \* rows the database may hold, over all its tables
MaxRetries == 3      \* largest max_retries of a client configuration
MaxFailAt == 4      \* a backend failure is injected at one of the first MaxFailAt statements

None == -1          \* Python None in an integer-valued attribute

Conditions == {"a", "b"}
ColumnLists == {<<>>, <<"id", "text">>}
Metrics == {"cosine", "l2", "dot"}
QueryKinds == {"none", "vec", "str"}     \* query=None, a vector, a text
VectorColumns == {"None", "v"}           \* vector_column_name
QueryTypes == {"vector", "fts"}
IntArgs == 0..MaxArg
NprobesArgs == {10}
RefineFactorArgs == {2}

Refinements == {"limit", "offset", "where", "select", "metric", "nprobes", "refine_factor"}
Materializations == {"to_pandas", "to_arrow", "to_list"}

---------------------------------------------------------------------------
(* HologresQuery *)

\* HologresQuery.__init__: the attributes a fresh object has.  _metric,
\* _nprobes and _refine_factor are not assigned by __init__; "unset" / None
\* stand for the attribute being absent.
HologresQuery(query, vector_column_name, query_type, listRef) ==
    [ query |-> query,
      vector_column_name |-> vector_column_name,
      query_type |-> query_type,
      limit_value |-> None,
      offset_value |-> None,
      where_conditions |-> listRef,
      select_columns |-> [isNone |-> TRUE, cols |-> <<>>],
      order_by |-> "None",
      metric |-> "unset",
      nprobes |-> None,
      refine_factor |-> None ]

\* The fields of a query object with the list reference resolved.
View(q, ls) == [q EXCEPT !.where_conditions = ls[q.where_conditions]]

Fields == {"query", "vector_column_name", "query_type", "limit_value", "offset_value",
           "where_conditions", "select_columns", "order_by", "metric", "nprobes",
           "refine_factor"}

\* A copy that shares the receiver's list object instead of copying it.
CopyShared(q, ls) ==
    [ q |-> [HologresQuery(q.query, q.vector_column_name, q.query_type, q.where_conditions)
                EXCEPT !.limit_value = q.limit_value,
                       !.offset_value = q.offset_value,
                       !.select_columns = q.select_columns,
                       !.order_by = q.order_by],
      ls |-> ls ]

\* HologresQuery._copy: a new object from the constructor arguments, then
\* limit, offset, a copy of the where list, projection and ordering.
_copy(q, ls) ==
    [ q |-> [HologresQuery(q.query, q.vector_column_name, q.query_type, Len(ls) + 1)
                EXCEPT !.limit_value = q.limit_value,
                       !.offset_value = q.offset_value,
                       !.select_columns = q.select_columns,
                       !.order_by = q.order_by],
      ls |-> Append(ls, ls[q.where_conditions]) ]

\* Python truthiness of an Optional[int]: None and 0 are both false.
Truthy(n) == n # None /\ n # 0

\* The condition guarding the vector-search branch of _build_sql.
VectorSearch(q) ==
    q.query_type = "vector" /\ q.query # "none" /\ q.vector_column_name # "None"

\* ensure_vector_query: a text query is rejected with ValueError.
ensure_vector_query(query) == IF query = "str" THEN "ValueError" ELSE "ok"

\* SQL text is modelled as the sequence of its tokens.
Clause(s) == [t |-> "clause", s |-> s, n |-> 0]
Sep(s) == [t |-> "sep", s |-> s, n |-> 0]
Txt(s) == [t |-> "text", s |-> s, n |-> 0]
Num(n) == [t |-> "num", s |-> "", n |-> n]

\* sep.join(parts)
RECURSIVE Join(_, _)
Join(parts, sep) ==
    IF parts = <<>> THEN <<>>
    ELSE IF Len(parts) = 1 THEN <<Txt(parts[1])>>
    ELSE <<Txt(parts[1]), sep>> \o Join(Tail(parts), sep)

\* The distance expression of the SELECT list.
distance_expr(q) == [t |-> "dist", s |-> "array_distance", n |-> 0]

select_clause(q) ==
    (IF ~q.select_columns.isNone /\ q.select_columns.cols # <<>>
        THEN Join(q.select_columns.cols, Sep(","))
        ELSE <<Txt("*")>>)
    \o (IF VectorSearch(q) THEN <<Sep(","), distance_expr(q)>> ELSE <<>>)

\* An ordering assigned on every lowering, vector search or not.
OrderByAlways(q) == "_distance ASC"

\* The value self._order_by holds once _build_sql has run.
order_by_after(q) == IF VectorSearch(q) THEN "_distance ASC" ELSE q.order_by

\* A WHERE clause that keeps only the latest condition.
WhereLast(conds) ==
    IF conds = <<>> THEN <<>> ELSE <<Clause("WHERE"), Txt(conds[Len(conds)])>>

\* The user conditions joined with AND, in list order.
where_clause(conds) ==
    IF conds = <<>> THEN <<>> ELSE <<Clause("WHERE")>> \o Join(conds, Sep("AND"))

order_by_clause(ob) == IF ob # "None" THEN <<Clause("ORDER BY"), Txt(ob)>> ELSE <<>>

limit_clause(q) == IF Truthy(q.limit_value) THEN <<Clause("LIMIT"), Num(q.limit_value)>> ELSE <<>>

offset_clause(q) == IF Truthy(q.offset_value) THEN <<Clause("OFFSET"), Num(q.offset_value)>> ELSE <<>>

\* A statement with OFFSET placed before LIMIT.
AssembleOffsetFirst(sel, whr, ord, lim, off) ==
    <<Clause("SELECT")>> \o sel \o <<Clause("FROM"), Txt("t")>> \o whr \o ord \o off \o lim

\* The concatenation order of _build_sql.
assemble(sel, whr, ord, lim, off) ==
    <<Clause("SELECT")>> \o sel \o <<Clause("FROM"), Txt("t")>> \o whr \o ord \o lim \o off

\* HologresQuery._build_sql: the statement, the exception if one is raised,
\* and the value left in self._order_by.
_build_sql(q, ls) ==
    IF VectorSearch(q) /\ ensure_vector_query(q.query) # "ok"
    THEN [err |-> "ValueError", sql |-> <<>>, order_by |-> q.order_by]
    ELSE [err |-> "ok",
          sql |-> assemble(select_clause(q),
                           where_clause(ls[q.where_conditions]),
                           order_by_clause(order_by_after(q)),
                           limit_clause(q),
                           offset_clause(q)),
          order_by |-> order_by_after(q)]

---------------------------------------------------------------------------
(* Query actions *)

\* A record of one call: method, receiver, returned object, argument, and
\* the statements it sent to the SQL engine.
Call(op, src, dst, s, n, requests) ==
    [op |-> op, src |-> src, dst |-> dst, s |-> s, n |-> n, requests |-> requests]

\* HologresTable.search: a fresh query object with an empty where list.  The
\* model follows the queries derived from one search() call.
search(query, vector_column_name, query_type) ==
    /\ queries = <<>>
    /\ queries' = Append(queries,
                    HologresQuery(query, vector_column_name, query_type, Len(lists) + 1))
    /\ lists' = Append(lists, <<>>)
    /\ hist' = Append(hist, [parent |-> 0, calls |-> <<>>])
    /\ last' = Call("search", 0, Len(queries) + 1, "", 0, <<>>)
    /\ pre' = HologresQuery(query, vector_column_name, query_type, <<>>)
    /\ outcome' = "ok"
    /\ UNCHANGED <<dbvars, httpvars, threads>>

\* The part shared by the refinements: the new object is returned, the
\* receiver's fields at call time are recorded.
Returned(op, i, nq, ls, calls, s, n) ==
    /\ queries' = Append(queries, nq)
    /\ lists' = ls
    /\ hist' = Append(hist, [parent |-> i, calls |-> calls])
    /\ last' = Call(op, i, Len(queries) + 1, s, n, <<>>)
    /\ pre' = View(queries[i], lists)
    /\ outcome' = "ok"
    /\ UNCHANGED <<dbvars, httpvars, threads>>

limit(i, n) ==
    /\ Len(queries) < MaxQueries
    /\ LET c == _copy(queries[i], lists)
       IN Returned("limit", i, [c.q EXCEPT !.limit_value = n], c.ls, hist[i].calls, "", n)

offset(i, n) ==
    /\ Len(queries) < MaxQueries
    /\ LET c == _copy(queries[i], lists)
       IN Returned("offset", i, [c.q EXCEPT !.offset_value = n], c.ls, hist[i].calls, "", n)

where(i, condition) ==
    /\ Len(queries) < MaxQueries
    /\ LET c == _copy(queries[i], lists)
       IN Returned("where", i, c.q,
                   [c.ls EXCEPT ![c.q.where_conditions] = Append(@, condition)],
                   Append(hist[i].calls, condition), condition, 0)

select(i, columns) ==
    /\ Len(queries) < MaxQueries
    /\ LET c == _copy(queries[i], lists)
       IN Returned("select", i,
                   [c.q EXCEPT !.select_columns = [isNone |-> FALSE, cols |-> columns]],
                   c.ls, hist[i].calls, "", 0)

metric(i, m) ==
    /\ Len(queries) < MaxQueries
    /\ LET c == _copy(queries[i], lists)
       IN Returned("metric", i, [c.q EXCEPT !.metric = m], c.ls, hist[i].calls, m, 0)

nprobes(i, n) ==
    /\ Len(queries) < MaxQueries
    /\ LET c == _copy(queries[i], lists)
       IN Returned("nprobes", i, [c.q EXCEPT !.nprobes = n], c.ls, hist[i].calls, "", n)

refine_factor(i, n) ==
    /\ Len(queries) < MaxQueries
    /\ LET c == _copy(queries[i], lists)
       IN Returned("refine_factor", i, [c.q EXCEPT !.refine_factor = n], c.ls,
                   hist[i].calls, "", n)

\* to_pandas: _build_sql, then the statement is executed on the engine.
\* to_arrow and to_list call to_pandas and convert its result.
Materialize(op, i) ==
    /\ LET r == _build_sql(queries[i], lists)
       IN IF r.err # "ok"
          THEN /\ outcome' = r.err
               /\ last' = Call(op, i, i, "", 0, <<>>)
               /\ UNCHANGED queries
          ELSE /\ outcome' = "ok"
               /\ last' = Call(op, i, i, "", 0, <<r.sql>>)
               /\ queries' = [queries EXCEPT ![i].order_by = r.order_by]
    /\ pre' = View(queries[i], lists)
    /\ UNCHANGED <<lists, hist, dbvars, httpvars, threads>>

to_pandas(i) == Materialize("to_pandas", i)
to_arrow(i) == Materialize("to_arrow", i)
to_list(i) == Materialize("to_list", i)

QueryInit ==
    /\ queries = <<>>
    /\ lists = <<>>
    /\ hist = <<>>
    /\ last = Call("none", 0, 0, "", 0, <<>>)
    /\ pre = HologresQuery("none", "None", "vector", <<>>)
    /\ outcome = "none"

NextSearch ==
    \E k \in QueryKinds, v \in VectorColumns, t \in QueryTypes : search(k, v, t)

NextRefine ==
    \/ \E i \in 1..Len(queries), n \in IntArgs : limit(i, n)
    \/ \E i \in 1..Len(queries), n \in IntArgs : offset(i, n)
    \/ \E i \in 1..Len(queries), c \in Conditions : where(i, c)
    \/ \E i \in 1..Len(queries), cols \in ColumnLists : select(i, cols)
    \/ \E i \in 1..Len(queries), m \in Metrics : metric(i, m)
    \/ \E i \in 1..Len(queries), n \in NprobesArgs : nprobes(i, n)
    \/ \E i \in 1..Len(queries), n \in RefineFactorArgs : refine_factor(i, n)

NextMaterialize ==
    \/ \E i \in 1..Len(queries) : to_pandas(i)
    \/ \E i \in 1..Len(queries) : to_arrow(i)
    \/ \E i \in 1..Len(queries) : to_list(i)

\* Chains of refinements.
NextQ == NextSearch \/ NextRefine

\* Refinements and materializations, on a heap of at most MaxLowered objects.
NextM == NextSearch \/ (Len(queries) < MaxLowered /\ NextRefine) \/ NextMaterialize

---------------------------------------------------------------------------
(* Data, tables and the backend *)

Names == {"t", "u"}
Modes == {"create", "overwrite", "append"}
VectorDim == 2

\* A row is its id, the length of its vector (None: a null vector) and
\* whether the vector is fill_value repeated.  The vector column of the
\* tables has dimension VectorDim.
Row(id, vec, fill) == [id |-> id, vec |-> vec, fill |-> fill]
Rows == {Row(1, VectorDim, FALSE), Row(2, 1, FALSE), Row(3, None, FALSE)}

\* The rows of one data argument: up to MaxRows rows, no row twice.
RowSeqs ==
    {rs \in UNION {[1..k -> Rows] : k \in 0..MaxRows} :
        \A i, j \in 1..Len(rs) : i # j => rs[i] # rs[j]}

RECURSIVE Flatten(_)
Flatten(batches) == IF batches = <<>> THEN <<>> ELSE Head(batches) \o Flatten(Tail(batches))

\* Record batches of an Arrow table: all rows in one batch, or one row per batch.
BatchSeqs ==
    {<<>>} \cup {<<rs>> : rs \in RowSeqs \ {<<>>}}
           \cup {[i \in 1..Len(rs) |-> <<rs[i]>>] : rs \in RowSeqs \ {<<>>}}

\* The data argument: None, an empty list, or an Arrow table (a non-empty
\* list of dicts is converted to a table of one batch).
NoData == [kind |-> "none", batches |-> <<>>]
EmptyList == [kind |-> "list", batches |-> <<>>]
DataArgs == {NoData, EmptyList} \cup {[kind |-> "table", batches |-> bs] : bs \in BatchSeqs}

Absent == [exists |-> FALSE, rows |-> <<>>]
Present(rows) == [exists |-> TRUE, rows |-> rows]

LocalConn == [kind |-> "local", database |-> TRUE]
Conns == {LocalConn, [kind |-> "remote", database |-> TRUE], [kind |-> "remote", database |-> FALSE]}

\* The running state of one connection call: the database, what has been
\* sent to the backend, and the exception raised ("ok": none).
Start(tbls) == [tables |-> tbls, issued |-> <<>>, err |-> "ok"]
Raise(st, e) == IF st.err = "ok" THEN [st EXCEPT !.err = e] ELSE st

Stmt(op, name, rows) == [op |-> op, name |-> name, rows |-> rows, sql |-> <<>>]
SqlStmt(op, name, sql) == [op |-> op, name |-> name, rows |-> <<>>, sql |-> sql]

\* The rows a WHERE predicate selects: the model knows one predicate.
DeletePredicate == "id = 1"
Matches(r, whr) == whr = DeletePredicate /\ r.id = 1

\* What the backend does with one statement or request.  The SQL engine runs
\* DROP TABLE IF EXISTS, CREATE TABLE (create_all skips an existing table)
\* and to_sql(if_exists="append"); the HTTP API answers a request on a
\* missing table with status 404, and a creation of an existing one with
\* another error status, which raise_for_status turns into an exception.
\* The rows of the model hold no scalar column, so an UPDATE leaves them as
\* they are.
Effect(c, tbls, stmt) ==
    LET cur == tbls[stmt.name]
        ok(t) == [err |-> "ok", tables |-> t]
        bad == [err |-> "BackendError", tables |-> tbls]
        missing == [err |-> IF c.kind = "local" THEN "BackendError" ELSE "HTTPError(404)",
                    tables |-> tbls]
    IN CASE stmt.op = "LIST" -> ok(tbls)
         [] stmt.op = "COLUMNS" -> ok(tbls)
         [] stmt.op = "GET" -> IF cur.exists THEN ok(tbls) ELSE missing
         [] stmt.op = "UPDATE" -> IF cur.exists THEN ok(tbls) ELSE missing
         [] stmt.op = "DROP" ->
                IF cur.exists THEN ok([tbls EXCEPT ![stmt.name] = Absent])
                ELSE IF c.kind = "local" THEN ok(tbls) ELSE missing
         [] stmt.op = "CREATE" ->
                IF ~cur.exists THEN ok([tbls EXCEPT ![stmt.name] = Present(<<>>)])
                ELSE IF c.kind = "local" THEN ok(tbls) ELSE bad
         [] stmt.op = "RENAME" ->
                LET new == stmt.sql[1].s
                IN IF cur.exists /\ ~tbls[new].exists
                   THEN ok([tbls EXCEPT ![stmt.name] = Absent, ![new] = cur])
                   ELSE bad
         [] stmt.op = "DELETE" ->
                IF cur.exists THEN ok([tbls EXCEPT ![stmt.name] = Present(<<>>)]) ELSE missing
         [] stmt.op = "DELETE WHERE" ->
                IF cur.exists
                THEN ok([tbls EXCEPT ![stmt.name] =
                            Present(SelectSeq(cur.rows, LAMBDA r : ~Matches(r, stmt.sql[1].s)))])
                ELSE missing
         [] stmt.op \in {"SELECT", "INDEX"} -> IF cur.exists THEN ok(tbls) ELSE missing
         [] stmt.op = "INSERT" ->
                IF cur.exists THEN ok([tbls EXCEPT ![stmt.name] = Present(cur.rows \o stmt.rows)])
                ELSE IF c.kind = "local" THEN ok([tbls EXCEPT ![stmt.name] = Present(stmt.rows)])
                ELSE missing

\* F applied to the value of e, with e evaluated once.
Bind(e, F(_)) == CHOOSE r \in {F(x) : x \in {e}} : TRUE

\* One statement sent to the backend by a call that has not raised yet.  The
\* failAt-th statement of the call fails in the backend (connection lost,
\* HTTP retries exhausted) and changes nothing.
Exec(c, st, stmt, failAt) ==
    Bind(st, LAMBDA s :
        IF s.err # "ok" THEN s
        ELSE IF Len(s.issued) + 1 = failAt
             THEN [tables |-> s.tables, issued |-> Append(s.issued, stmt), err |-> "BackendError"]
             ELSE Bind(Effect(c, s.tables, stmt), LAMBDA r :
                    [tables |-> r.tables, issued |-> Append(s.issued, stmt), err |-> r.err]))

---------------------------------------------------------------------------
(* schema.py and table.py helpers *)

\* validate_vector_data: a value that is no list, tuple or array is rejected,
\* and so is a length other than expected_dim when one is given.
validate_vector_data(vec, expected_dim) ==
    IF vec = None THEN "ValueError"
    ELSE IF expected_dim # None /\ vec # expected_dim THEN "ValueError"
    ELSE "ok"

\* infer_schema_from_data: an Arrow table carries its schema, a list must be
\* non-empty.
infer_schema_from_data(data) ==
    IF data.kind = "table" THEN "ok"
    ELSE IF data.kind = "list" /\ data.batches # <<>> THEN "ok"
    ELSE "ValueError"

\* _into_pyarrow_reader: an empty list (and None) cannot be converted.
_into_pyarrow_reader(data) ==
    IF data.kind = "table" THEN "ok"
    ELSE IF data.kind = "list" /\ data.batches # <<>> THEN "ok"
    ELSE "ValueError"

DefaultFillDim == 128

\* The loop of _insert_batch over the vector column: the rows to insert, or
\* the exception raised at the first bad vector.
RECURSIVE ProcessVectors(_, _)
ProcessVectors(rows, on_bad_vectors) ==
    IF rows = <<>> THEN [err |-> "ok", rows |-> <<>>]
    ELSE LET r == Head(rows)
             rest == ProcessVectors(Tail(rows), on_bad_vectors)
         IN IF validate_vector_data(r.vec, None) = "ok"
            THEN [rest EXCEPT !.rows = <<r>> \o @]
            ELSE IF on_bad_vectors = "error" THEN [err |-> "ValueError", rows |-> <<>>]
            ELSE IF on_bad_vectors = "drop" THEN rest
            ELSE IF on_bad_vectors = "fill"
                 THEN [rest EXCEPT !.rows =
                          <<Row(r.id, IF r.vec = None THEN DefaultFillDim ELSE r.vec, TRUE)>> \o @]
            ELSE [err |-> "ValueError", rows |-> <<>>]

\* HologresTable._insert_batch: validate, then one to_sql call.
_insert_batch(c, st, name, batch, on_bad_vectors, failAt) ==
    Bind(ProcessVectors(batch, on_bad_vectors), LAMBDA p :
        IF p.err # "ok" THEN Raise(st, "ValueError(bad vector)")
        ELSE Exec(c, st, Stmt("INSERT", name, p.rows), failAt))

RECURSIVE InsertBatches(_, _, _, _, _, _)
InsertBatches(c, st, name, batches, on_bad_vectors, failAt) ==
    Bind(st, LAMBDA s :
        IF batches = <<>> \/ s.err # "ok" THEN s
        ELSE InsertBatches(c, _insert_batch(c, s, name, Head(batches), on_bad_vectors, failAt),
                           name, Tail(batches), on_bad_vectors, failAt))

\* HologresTable.add: DELETE FROM in overwrite mode, then batch by batch.
local_add(c, st, name, data, mode, on_bad_vectors, failAt) ==
    Bind(IF mode = "overwrite" THEN Exec(c, st, Stmt("DELETE", name, <<>>), failAt) ELSE st,
         LAMBDA s1 :
            IF s1.err # "ok" THEN s1
            ELSE IF _into_pyarrow_reader(data) # "ok"
                 THEN Raise(s1, "ValueError(cannot convert data)")
            ELSE InsertBatches(c, s1, name, data.batches, on_bad_vectors, failAt))

RECURSIVE PostBatches(_, _, _, _, _)
PostBatches(c, st, name, batches, failAt) ==
    Bind(st, LAMBDA s :
        IF batches = <<>> \/ s.err # "ok" THEN s
        ELSE PostBatches(c, Exec(c, s, Stmt("INSERT", name, Head(batches)), failAt),
                         name, Tail(batches), failAt))

\* RemoteTable.add: one insert_data request per batch; mode and
\* on_bad_vectors are not read.
remote_add(c, st, name, data, mode, on_bad_vectors, failAt) ==
    IF st.err # "ok" THEN st
    ELSE IF _into_pyarrow_reader(data) # "ok" THEN Raise(st, "ValueError(cannot convert data)")
    ELSE PostBatches(c, st, name, data.batches, failAt)

\* A dict argument: None, or its keys in insertion order.
NoDict == [isNone |-> TRUE, cols |-> <<>>]
Dict(cols) == [isNone |-> FALSE, cols |-> cols]
DictTruthy(d) == ~d.isNone /\ d.cols # <<>>
WhereTruthy(whr) == whr \notin {"None", ""}

Param(col) == [t |-> "param", s |-> col, n |-> 0]
Expr(col) == [t |-> "expr", s |-> col, n |-> 0]

\* The SET list: the entries of values, then those of values_sql.
set_clauses(values, values_sql) ==
    (IF DictTruthy(values) THEN [i \in 1..Len(values.cols) |-> Param(values.cols[i])] ELSE <<>>)
    \o (IF DictTruthy(values_sql)
        THEN [i \in 1..Len(values_sql.cols) |-> Expr(values_sql.cols[i])] ELSE <<>>)

\* ', '.join(set_clauses)
RECURSIVE JoinTokens(_, _)
JoinTokens(tokens, sep) ==
    IF Len(tokens) <= 1 THEN tokens
    ELSE <<Head(tokens), sep>> \o JoinTokens(Tail(tokens), sep)

update_sql(name, whr, values, values_sql) ==
    <<Clause("UPDATE"), Txt(name), Clause("SET")>>
    \o JoinTokens(set_clauses(values, values_sql), Sep(","))
    \o (IF WhereTruthy(whr) THEN <<Clause("WHERE"), Txt(whr)>> ELSE <<>>)

\* HologresTable.update: one UPDATE statement on the engine.
local_update(c, st, name, whr, values, values_sql, failAt) ==
    IF ~DictTruthy(values) /\ ~DictTruthy(values_sql)
    THEN Raise(st, "ValueError(values required)")
    ELSE Exec(c, st, SqlStmt("UPDATE", name, update_sql(name, whr, values, values_sql)), failAt)

\* RemoteTable.update: the statement is built and handed to
\* self._client.query_table, a method HologresCloudClient does not have.
remote_update(c, st, name, whr, values, values_sql, failAt) ==
    IF ~DictTruthy(values) /\ ~DictTruthy(values_sql)
    THEN Raise(st, "ValueError(values required)")
    ELSE Raise(st, "AttributeError(query_table)")

\* The Table methods that take no data: reading, searching, indexing, deleting.
TableOps == {"count_rows", "to_arrow", "search", "create_index", "create_fts_index", "delete"}

\* HologresTable.count_rows / to_pandas, to_arrow / search and a
\* materialization of the query / create_index / create_fts_index / delete:
\* each runs one statement on the engine.
local_table_op(c, st, op, name, failAt) ==
    CASE op \in {"count_rows", "to_arrow", "search"} ->
            Exec(c, st, Stmt("SELECT", name, <<>>), failAt)
      [] op \in {"create_index", "create_fts_index"} ->
            Exec(c, st, Stmt("INDEX", name, <<>>), failAt)
      [] op = "delete" ->
            Exec(c, st, SqlStmt("DELETE WHERE", name, <<Txt(DeletePredicate)>>), failAt)

\* RemoteTable: count_rows, to_arrow and delete call
\* self._client.query_table, which HologresCloudClient does not define;
\* search calls HologresQuery(table=self, ...), a signature the constructor
\* does not have; create_index and create_fts_index post to the API.
remote_table_op(c, st, op, name, failAt) ==
    CASE op \in {"count_rows", "to_arrow", "delete"} -> Raise(st, "AttributeError(query_table)")
      [] op = "search" -> Raise(st, "TypeError(HologresQuery)")
      [] op \in {"create_index", "create_fts_index"} ->
            Exec(c, st, Stmt("INDEX", name, <<>>), failAt)

---------------------------------------------------------------------------
(* Connections *)

\* table_names: one catalog query / list_tables request.
table_names(c, st, name, failAt) ==
    IF st.err # "ok" THEN st
    ELSE IF c.kind = "remote" /\ ~c.database THEN Raise(st, "ValueError(database required)")
    ELSE Exec(c, st, Stmt("LIST", name, <<>>), failAt)

\* An open_table that reads the columns without looking the name up.
OpenUnchecked(c, st, name, failAt) ==
    Exec(c, table_names(c, st, name, failAt), Stmt("COLUMNS", name, <<>>), failAt)

\* HologresDBConnection.open_table
local_open_table(c, st, name, failAt) ==
    Bind(table_names(c, st, name, failAt), LAMBDA s1 :
        IF s1.err # "ok" THEN s1
        ELSE IF ~s1.tables[name].exists THEN Raise(s1, "ValueError(does not exist)")
        ELSE Exec(c, s1, Stmt("COLUMNS", name, <<>>), failAt))

\* RemoteDBConnection.open_table
remote_open_table(c, st, name, failAt) ==
    IF st.err # "ok" THEN st
    ELSE IF ~c.database THEN Raise(st, "ValueError(database required)")
    ELSE Exec(c, st, Stmt("GET", name, <<>>), failAt)

\* HologresDBConnection.drop_table
local_drop_table(c, st, name, failAt) == Exec(c, st, Stmt("DROP", name, <<>>), failAt)

\* RemoteDBConnection.drop_table
remote_drop_table(c, st, name, failAt) ==
    IF st.err # "ok" THEN st
    ELSE IF ~c.database THEN Raise(st, "ValueError(database required)")
    ELSE Exec(c, st, Stmt("DROP", name, <<>>), failAt)

\* HologresDBConnection.rename_table: ALTER TABLE old_name RENAME TO new_name.
local_rename_table(c, st, old_name, new_name, failAt) ==
    Exec(c, st, SqlStmt("RENAME", old_name, <<Txt(new_name)>>), failAt)

\* A rename that is sent to the HTTP API.
RenameViaApi(c, st, old_name, new_name, failAt) ==
    Exec(c, st, SqlStmt("RENAME", old_name, <<Txt(new_name)>>), failAt)

\* RemoteDBConnection.rename_table: raises, whatever the names.
remote_rename_table(c, st, old_name, new_name, failAt) ==
    Raise(st, "NotImplementedError")

\* The schema step shared by both create_table methods.
ResolveSchema(st, data, schemaGiven) ==
    IF st.err # "ok" THEN st
    ELSE IF ~schemaGiven /\ data.kind # "none"
         THEN IF infer_schema_from_data(data) = "ok" THEN st
              ELSE Raise(st, "ValueError(cannot infer schema)")
    ELSE IF ~schemaGiven THEN Raise(st, "ValueError(schema or data required)")
    ELSE st

\* The overwrite branch without the drop.
OverwriteKeepsTable(c, st, name, failAt) == st

\* The overwrite branch of create_table: the existing table is dropped.
local_overwrite(c, st, name, failAt) == local_drop_table(c, st, name, failAt)

\* The mode="create" branch without the exist_ok test.
ExistingCheckNone(table_exists, mode, exist_ok) == FALSE

\* The test that rejects an existing table.
already_exists(table_exists, mode, exist_ok) == table_exists /\ mode = "create" /\ ~exist_ok

\* An append that never finds the table.
AppendNever(table_exists, mode) == FALSE

\* The test that selects the append branch: the table is opened and added to.
append_existing(table_exists, mode) == table_exists /\ mode = "append"

\* HologresDBConnection.create_table
local_create_table(c, tbls, name, data, schemaGiven, mode, exist_ok, failAt) ==
    Bind(table_names(c, Start(tbls), name, failAt), LAMBDA s1 :
      LET table_exists == s1.tables[name].exists
      IN IF s1.err # "ok" THEN s1
         ELSE IF already_exists(table_exists, mode, exist_ok)
              THEN Raise(s1, "ValueError(already exists)")
         ELSE IF append_existing(table_exists, mode)
              THEN Bind(local_open_table(c, s1, name, failAt), LAMBDA s2 :
                     IF s2.err = "ok" /\ data.kind # "none"
                     THEN local_add(c, s2, name, data, "append", "error", failAt)
                     ELSE s2)
         ELSE Bind(IF table_exists /\ mode = "overwrite"
                   THEN local_overwrite(c, s1, name, failAt) ELSE s1, LAMBDA s2 :
              Bind(ResolveSchema(s2, data, schemaGiven), LAMBDA s3 :
              Bind(Exec(c, s3, Stmt("CREATE", name, <<>>), failAt), LAMBDA s4 :
                     IF s4.err = "ok" /\ data.kind # "none"
                     THEN local_add(c, s4, name, data, "append", "error", failAt)
                     ELSE s4))))

\* RemoteDBConnection.create_table
remote_create_table(c, tbls, name, data, schemaGiven, mode, exist_ok, failAt) ==
    Bind(table_names(c, Start(tbls), name, failAt), LAMBDA s1 :
      LET table_exists == s1.tables[name].exists
      IN IF s1.err # "ok" THEN s1
         ELSE IF already_exists(table_exists, mode, exist_ok)
              THEN Raise(s1, "ValueError(already exists)")
         ELSE IF append_existing(table_exists, mode)
              THEN Bind(remote_open_table(c, s1, name, failAt), LAMBDA s2 :
                     IF s2.err = "ok" /\ data.kind # "none"
                     THEN remote_add(c, s2, name, data, "append", "error", failAt)
                     ELSE s2)
         ELSE Bind(IF table_exists /\ mode = "overwrite"
                   THEN remote_drop_table(c, s1, name, failAt) ELSE s1, LAMBDA s2 :
              Bind(ResolveSchema(s2, data, schemaGiven), LAMBDA s3 :
              Bind(Exec(c, s3, Stmt("CREATE", name, <<>>), failAt), LAMBDA s4 :
                     IF s4.err = "ok" /\ data.kind # "none"
                     THEN remote_add(c, s4, name, data, "append", "error", failAt)
                     ELSE s4))))

---------------------------------------------------------------------------
(* Connection actions *)

\* The arguments only Table.add and Table.update take.
TableArgs(on_bad_vectors, whr, values, values_sql) ==
    [on_bad_vectors |-> on_bad_vectors, whr |-> whr, values |-> values, values_sql |-> values_sql]
NoArgs == TableArgs("error", "None", NoDict, NoDict)

DbCall(method, name, data, schemaGiven, mode, exist_ok, failAt, err) ==
    [method |-> method, name |-> name, data |-> data, schemaGiven |-> schemaGiven,
     mode |-> mode, exist_ok |-> exist_ok, failAt |-> failAt, err |-> err, args |-> NoArgs,
     new_name |-> ""]

RECURSIVE TotalRows(_, _)
TotalRows(tbls, names) ==
    IF names = {} THEN 0
    ELSE LET n == CHOOSE x \in names : TRUE
         IN Len(tbls[n].rows) + TotalRows(tbls, names \ {n})

NoCall == DbCall("none", "t", NoData, FALSE, "", FALSE, 0, "ok")

Finish(st, call) ==
    /\ TotalRows(st.tables, Names) <= MaxTableRows
    /\ tables' = st.tables
    /\ issued' = st.issued
    /\ dbpre' = tables
    /\ dbcall' = call
    /\ UNCHANGED <<conn, qvars, httpvars, threads>>

create_table(name, data, schemaGiven, mode, exist_ok, failAt) ==
    \E st \in {IF conn.kind = "local"
              THEN local_create_table(conn, tables, name, data, schemaGiven, mode, exist_ok, failAt)
              ELSE remote_create_table(conn, tables, name, data, schemaGiven, mode, exist_ok, failAt)} :
       Finish(st, DbCall("create_table", name, data, schemaGiven, mode, exist_ok, failAt, st.err))

open_table(name, failAt) ==
    \E st \in {IF conn.kind = "local"
              THEN local_open_table(conn, Start(tables), name, failAt)
              ELSE remote_open_table(conn, Start(tables), name, failAt)} :
       Finish(st, DbCall("open_table", name, NoData, FALSE, "", FALSE, failAt, st.err))

drop_table(name, failAt) ==
    \E st \in {IF conn.kind = "local"
              THEN local_drop_table(conn, Start(tables), name, failAt)
              ELSE remote_drop_table(conn, Start(tables), name, failAt)} :
       Finish(st, DbCall("drop_table", name, NoData, FALSE, "", FALSE, failAt, st.err))

OnBadVectors == {"error", "drop", "fill"}
AddModes == {"append", "overwrite"}
WhereArgs == {"None", "a"}
ValuesArgs == {NoDict, Dict(<<>>), Dict(<<"x">>), Dict(<<"x", "y">>)}
ValuesSqlArgs == {NoDict, Dict(<<"z">>)}

\* Table.add on a handle that create_table or open_table returned.
add(name, data, mode, on_bad_vectors, failAt) ==
    /\ tables[name].exists
    /\ \E st \in {IF conn.kind = "local"
                 THEN local_add(conn, Start(tables), name, data, mode, on_bad_vectors, failAt)
                 ELSE remote_add(conn, Start(tables), name, data, mode, on_bad_vectors, failAt)} :
          Finish(st, [DbCall("add", name, data, FALSE, mode, FALSE, failAt, st.err)
                        EXCEPT !.args = TableArgs(on_bad_vectors, "None", NoDict, NoDict)])

\* Table.update on such a handle.
update(name, whr, values, values_sql, failAt) ==
    /\ tables[name].exists
    /\ \E st \in {IF conn.kind = "local"
                 THEN local_update(conn, Start(tables), name, whr, values, values_sql, failAt)
                 ELSE remote_update(conn, Start(tables), name, whr, values, values_sql, failAt)} :
          Finish(st, [DbCall("update", name, NoData, FALSE, "", FALSE, failAt, st.err)
                        EXCEPT !.args = TableArgs("error", whr, values, values_sql)])

\* One of the other Table methods on a handle.
table_op(op, name, failAt) ==
    /\ tables[name].exists
    /\ \E st \in {IF conn.kind = "local"
                 THEN local_table_op(conn, Start(tables), op, name, failAt)
                 ELSE remote_table_op(conn, Start(tables), op, name, failAt)} :
          Finish(st, DbCall(op, name, NoData, FALSE, "", FALSE, failAt, st.err))

rename_table(old_name, new_name, failAt) ==
    \E st \in {IF conn.kind = "local"
              THEN local_rename_table(conn, Start(tables), old_name, new_name, failAt)
              ELSE remote_rename_table(conn, Start(tables), old_name, new_name, failAt)} :
       Finish(st, [DbCall("rename_table", old_name, NoData, FALSE, "", FALSE, failAt, st.err)
                     EXCEPT !.new_name = new_name])

DbInit(conns) ==
    /\ conn \in conns
    /\ tables = [n \in Names |-> Absent]
    /\ issued = <<>>
    /\ dbpre = [n \in Names |-> Absent]
    /\ dbcall = NoCall

\* The call has returned or raised and the caller goes on; the next call
\* starts after that.
Return ==
    /\ dbcall # NoCall
    /\ dbcall' = NoCall
    /\ dbpre' = tables
    /\ issued' = <<>>
    /\ UNCHANGED <<conn, tables, qvars, httpvars, threads>>

NextCall ==
    \/ \E name \in Names, data \in DataArgs, schemaGiven \in BOOLEAN, mode \in Modes,
          failAt \in 0..MaxFailAt :
            \E exist_ok \in (IF mode = "create" THEN BOOLEAN ELSE {FALSE}) :
                create_table(name, data, schemaGiven, mode, exist_ok, failAt)
    \/ \E name \in Names, failAt \in 0..MaxFailAt : open_table(name, failAt)
    \/ \E name \in Names, failAt \in 0..MaxFailAt : drop_table(name, failAt)
    \/ \E old_name \in Names, new_name \in Names, failAt \in 0..1 :
          rename_table(old_name, new_name, failAt)

NextDB == (dbcall = NoCall /\ NextCall) \/ Return

\* Table calls, on tables made by create_table(name, schema=...).
NextTableCall ==
    \/ \E name \in Names : create_table(name, NoData, TRUE, "create", FALSE, 0)
    \/ \E name \in Names, data \in DataArgs \ {NoData}, mode \in AddModes,
          on_bad_vectors \in OnBadVectors, failAt \in 0..MaxFailAt :
            add(name, data, mode, on_bad_vectors, failAt)
    \/ \E name \in Names, whr \in WhereArgs, values \in ValuesArgs,
          values_sql \in ValuesSqlArgs, failAt \in 0..1 :
            update(name, whr, values, values_sql, failAt)
    \/ \E op \in TableOps, name \in Names, failAt \in 0..1 : table_op(op, name, failAt)

NextT == (dbcall = NoCall /\ NextTableCall) \/ Return

---------------------------------------------------------------------------
(* The HTTP client *)

RetryDelays == {0, 1, 2}

\* What one session.request attempt meets: a JSON answer with a 2xx status, a
\* connection error, a non-2xx status, a timeout, or a 2xx answer whose body
\* is no JSON.
Failures == {"ConnectionError", "HTTPError", "Timeout"}
Outcomes == {"ok", "InvalidJSON"} \cup Failures

NoClient ==
    [status |-> "none", max_retries |-> 0, retry_delay |-> 0, attempt |-> 0,
     attempts |-> <<>>, waits |-> <<>>, error |-> "none",
     session |-> "none", async_session |-> "none"]

\* A retry decision that gives up one attempt early.
RetryOneLess(attempt, max_retries) == attempt + 1 < max_retries

\* The test of the except branch: sleep and retry, or re-raise.
may_retry(attempt, max_retries) == attempt < max_retries

\* A delay that grows linearly.
BackoffLinear(retry_delay, attempt) == retry_delay * (attempt + 1)

\* The delay slept after failed attempt number `attempt`.
backoff(retry_delay, attempt) == retry_delay * (2 ^ attempt)

\* The client HologresCloudClient.__init__ builds from a ClientConfig: a
\* requests.Session is opened, the aiohttp session is not.
Client(max_retries, retry_delay) ==
    [NoClient EXCEPT !.status = "idle", !.max_retries = max_retries,
                     !.retry_delay = retry_delay, !.session = "open"]

\* HologresCloudClient.__init__ with a ClientConfig.
HologresCloudClient(max_retries, retry_delay) ==
    /\ http.status = "none"
    /\ http' = Client(max_retries, retry_delay)
    /\ UNCHANGED <<qvars, dbvars, ahttp, link, threads>>

\* _make_request is entered: the loop starts at attempt 0.  Requests on a
\* closed connection are not followed.
_make_request ==
    /\ http.status = "idle"
    /\ link.closed = "no"
    /\ http' = [http EXCEPT !.status = "running", !.attempt = 0, !.attempts = <<>>,
                            !.waits = <<>>, !.error = "none"]
    /\ UNCHANGED <<qvars, dbvars, ahttp, link, threads>>

\* One iteration of the loop of _make_request.  response.json() raises on a
\* body that is no JSON; whether that exception is a RequestException
\* (caught, `caught` TRUE) depends on the installed requests library.
session_request(answer, caught) ==
    /\ http.status = "running"
    /\ LET made == [http EXCEPT !.attempts = Append(@, answer)]
           retried == answer \in Failures \/ (answer = "InvalidJSON" /\ caught)
       IN http' =
            IF answer = "ok" THEN [made EXCEPT !.status = "returned"]
            ELSE IF ~retried THEN [made EXCEPT !.status = "raised", !.error = "ValueError"]
            ELSE IF may_retry(http.attempt, http.max_retries)
                 THEN IF http.attempt + 1 < http.max_retries + 1
                      THEN [made EXCEPT !.waits = Append(@, backoff(http.retry_delay, http.attempt)),
                                        !.attempt = @ + 1]
                      ELSE [made EXCEPT !.waits = Append(@, backoff(http.retry_delay, http.attempt)),
                                        !.status = "returned"]
            ELSE [made EXCEPT !.status = "raised", !.error = answer]
    /\ UNCHANGED <<qvars, dbvars, ahttp, link, threads>>

\* The caller has the answer or the exception; the client is idle again.
HttpReturn ==
    /\ http.status \in {"returned", "raised"}
    /\ http' = [http EXCEPT !.status = "idle", !.attempt = 0, !.attempts = <<>>,
                            !.waits = <<>>, !.error = "none"]
    /\ UNCHANGED <<qvars, dbvars, ahttp, link, threads>>

HttpInit == http = NoClient

NextHTTP ==
    \/ \E max_retries \in 0..MaxRetries, retry_delay \in RetryDelays :
          HologresCloudClient(max_retries, retry_delay)
    \/ _make_request
    \/ \E answer \in Outcomes, caught \in BOOLEAN : session_request(answer, caught)
    \/ HttpReturn

---------------------------------------------------------------------------
(* The asynchronous request path *)

\* The failures aiohttp reports as aiohttp.ClientError.  The session is built
\* with ClientTimeout(total=...): when that expires the request raises
\* asyncio.TimeoutError, which is no ClientError.
ClientErrors == {"ConnectionError", "HTTPError"}

Idle == [status |-> "idle", attempt |-> 0, attempts |-> <<>>, waits |-> <<>>, error |-> "none"]

\* _get_async_session: the session is created when there is none or when
\* the one held is closed.
_get_async_session(async_session) ==
    IF async_session \in {"none", "closed"} THEN "open" ELSE async_session

\* _make_async_request is entered: the session is fetched, the loop starts
\* at attempt 0.  Requests on a closed connection are not followed.
_make_async_request ==
    /\ http.status # "none"
    /\ ahttp.status = "idle"
    /\ link.closed = "no"
    /\ ahttp' = [Idle EXCEPT !.status = "running"]
    /\ http' = [http EXCEPT !.async_session = _get_async_session(@)]
    /\ UNCHANGED <<qvars, dbvars, link, threads>>

\* One iteration of the loop of _make_async_request.  response.json() raises
\* ContentTypeError (a ClientError: `caught` TRUE) or a JSON decoding error
\* (not one) on a body that is no JSON.
async_session_request(answer, caught) ==
    /\ ahttp.status = "running"
    /\ LET made == [ahttp EXCEPT !.attempts = Append(@, answer)]
           retried == answer \in ClientErrors \/ (answer = "InvalidJSON" /\ caught)
       IN ahttp' =
            IF answer = "ok" THEN [made EXCEPT !.status = "returned"]
            ELSE IF ~retried
                 THEN [made EXCEPT !.status = "raised",
                                   !.error = IF answer = "Timeout" THEN "TimeoutError"
                                             ELSE "ValueError"]
            ELSE IF may_retry(ahttp.attempt, http.max_retries)
                 THEN [made EXCEPT !.waits = Append(@, backoff(http.retry_delay, ahttp.attempt)),
                                   !.attempt = @ + 1]
            ELSE [made EXCEPT !.status = "raised", !.error = answer]
    /\ UNCHANGED <<qvars, dbvars, http, link, threads>>

\* The awaiting caller has the answer or the exception.
AsyncReturn ==
    /\ ahttp.status \in {"returned", "raised"}
    /\ ahttp' = Idle
    /\ UNCHANGED <<qvars, dbvars, http, link, threads>>

---------------------------------------------------------------------------
(* connect and close *)

DefaultPort == 80
NoKey == "None"
Components == {"username", "password", "host", "port", "database"}
UriPorts == {None, 5432}
PortArgs == {DefaultPort, 5433}
Pools == {"None", "int", "executor"}     \* request_thread_pool

\* A URI as parse_hologres_uri reads it; "None" / None is a missing component.
Url(username, password, host, port, database) ==
    [username |-> username, password |-> password, host |-> host, port |-> port,
     database |-> database]
NoUrl == Url("None", "None", "None", None, "None")
Uri(scheme, url) == [scheme |-> scheme, url |-> url]
Uris ==
    {Uri(s, Url("u", "p", "h", port, "d")) : s \in {"postgresql", "postgres"}, port \in UriPorts}
    \cup {Uri("holo", NoUrl), Uri("path", NoUrl)}

\* The keyword arguments username, password, host, port, database.
ConnectArgs ==
    {Url(username, password, host, port, database) :
        username \in {"None", "u2"}, password \in {"None", "p2"}, host \in {"None", "h2"},
        port \in PortArgs, database \in {"None", "d2"}}
NoConnectArgs == Url("None", "None", "None", DefaultPort, "None")

IsPostgres(uri) == uri.scheme \in {"postgresql", "postgres"}

\* Python `a or b` on an Optional[str] and on an int.
Or(a, b) == IF a # "None" THEN a ELSE b
PortOr(a, b) == IF a # 0 THEN a ELSE b

\* HologresDBConnection.__init__: the attributes after the URI is parsed.
attributes(uri, a) ==
    IF IsPostgres(uri)
    THEN Url(Or(a.username, uri.url.username), Or(a.password, uri.url.password),
             Or(a.host, uri.url.host), PortOr(a.port, uri.url.port),
             Or(a.database, uri.url.database))
    ELSE a

\* _build_connection_string: the string handed to create_engine.
_build_connection_string(uri, attrs) ==
    IF IsPostgres(uri) THEN [err |-> "ok", url |-> uri.url]
    ELSE IF "None" \in {attrs.username, attrs.password, attrs.host, attrs.database}
    THEN [err |-> "ValueError(components)", url |-> NoUrl]
    ELSE [err |-> "ok", url |-> attrs]

\* A key taken from the environment even when one is passed.
ApiKeyEnvFirst(api_key, env) == IF env # NoKey THEN env ELSE api_key

\* connect: the api key is the argument, and HOLOGRES_API_KEY when the
\* argument is None.
resolve_api_key(api_key, env) == IF api_key = NoKey THEN env ELSE api_key

\* The arguments and environment of a connect() call.
ConnectCall(uri, a, api_key, env, pool, unknown) ==
    [uri |-> uri, args |-> a, api_key |-> api_key, env |-> env, pool |-> pool,
     unknown |-> unknown]

NoLink ==
    [kind |-> "none", err |-> "none",
     call |-> ConnectCall(Uri("path", NoUrl), NoConnectArgs, NoKey, NoKey, "None", FALSE),
     attrs |-> NoUrl, engine_url |-> NoUrl, api_key |-> NoKey,
     thread_pool |-> "none", owns_thread_pool |-> FALSE, created |-> {}, closed |-> "no"]

Failed(call, err) == [NoLink EXCEPT !.err = err, !.call = call]

\* HologresDBConnection(uri, ...): attributes, connection string, engine.
HologresDBConnection(call) ==
    LET attrs == attributes(call.uri, call.args)
        cs == _build_connection_string(call.uri, attrs)
    IN IF cs.err # "ok" THEN Failed(call, cs.err)
       ELSE [NoLink EXCEPT !.kind = "local", !.err = "ok", !.call = call, !.attrs = attrs,
                           !.engine_url = cs.url, !.created = {"connection"}]

\* RemoteDBConnection(uri, api_key, ...): the client is built, then the
\* worker pool unless one was handed in.  connect turns an int into a pool
\* of its own before the constructor runs.
RemoteDBConnection(call, api_key) ==
    [NoLink EXCEPT !.kind = "remote", !.err = "ok", !.call = call, !.api_key = api_key,
                   !.thread_pool = "open",
                   !.owns_thread_pool = (call.pool = "None"),
                   !.created = {"connection", "client"}
                               \cup (IF call.pool \in {"None", "int"} THEN {"pool"} ELSE {})]

\* connect(uri, ...).  A new connection is made when none is open.
connect(uri, a, api_key, env, pool, unknown, max_retries, retry_delay) ==
    /\ link.kind = "none" \/ link.closed # "no"
    /\ http.status \in {"none", "idle"}
    /\ ahttp.status = "idle"
    /\ LET call == ConnectCall(uri, a, api_key, env, pool, unknown)
           key == resolve_api_key(api_key, env)
       IN IF uri.scheme = "holo"
          THEN IF key = NoKey
               THEN /\ link' = Failed(call, "ValueError(api_key)")
                    /\ UNCHANGED http
               ELSE /\ link' = RemoteDBConnection(call, key)
                    /\ http' = Client(max_retries, retry_delay)
          ELSE /\ link' = IF unknown THEN Failed(call, "ValueError(kwargs)")
                          ELSE HologresDBConnection(call)
               /\ UNCHANGED http
    /\ UNCHANGED <<qvars, dbvars, ahttp, threads>>

\* RemoteDBConnection.close: the pool is shut down when the connection owns
\* it, then the client's __exit__ closes the requests session.
close ==
    /\ link.kind = "remote" /\ link.closed = "no"
    /\ http.status = "idle" /\ ahttp.status = "idle"
    /\ link' = [link EXCEPT !.thread_pool = IF link.owns_thread_pool THEN "shutdown" ELSE @,
                            !.closed = "close"]
    /\ http' = [http EXCEPT !.session = "closed"]
    /\ UNCHANGED <<qvars, dbvars, ahttp, threads>>

\* RemoteDBConnection.close_async: the pool, then the client's close(),
\* which closes the aiohttp session if it is open and the requests session.
close_async ==
    /\ link.kind = "remote" /\ link.closed = "no"
    /\ http.status = "idle" /\ ahttp.status = "idle"
    /\ link' = [link EXCEPT !.thread_pool = IF link.owns_thread_pool THEN "shutdown" ELSE @,
                            !.closed = "close_async"]
    /\ http' = [http EXCEPT !.session = "closed",
                            !.async_session = IF @ = "open" THEN "closed" ELSE @]
    /\ UNCHANGED <<qvars, dbvars, ahttp, threads>>

LinkInit == link = NoLink /\ ahttp = Idle

\* connect: a database URI or a path with every combination of keyword
\* arguments, a holo:// URI with every combination of key, environment and
\* pool; then close.
NextConnect ==
    \/ \E uri \in Uris \ {Uri("holo", NoUrl)}, a \in ConnectArgs, unknown \in BOOLEAN :
          connect(uri, a, NoKey, NoKey, "None", unknown, MaxRetries, 1)
    \/ \E api_key \in {NoKey, "k1"}, env \in {NoKey, "k2"}, pool \in Pools :
          connect(Uri("holo", NoUrl), NoConnectArgs, api_key, env, pool, FALSE, MaxRetries, 1)
    \/ close
    \/ close_async

\* A remote connection, its sync and async requests, and its closing.
NextRemote ==
    \/ \E pool \in Pools, max_retries \in 0..MaxRetries :
          connect(Uri("holo", NoUrl), NoConnectArgs, "k1", NoKey, pool, FALSE, max_retries, 1)
    \/ _make_request
    \/ \E answer \in {"ok", "HTTPError", "Timeout"} : session_request(answer, TRUE)
    \/ HttpReturn
    \/ _make_async_request
    \/ \E answer \in {"ok", "HTTPError", "Timeout"} : async_session_request(answer, TRUE)
    \/ AsyncReturn
    \/ close
    \/ close_async

---------------------------------------------------------------------------
(* Calls on worker threads against one shared query *)

MaxShared == 2      \* query objects on the heap when the worker threads run
Threads == {1, 2}

\* The calls a thread may run: a refinement with its argument, or to_pandas.
ThreadCall(op, s, n, cols) == [op |-> op, s |-> s, n |-> n, cols |-> cols]
ThreadCalls ==
    {ThreadCall("limit", "", n, <<>>) : n \in IntArgs}
    \cup {ThreadCall("offset", "", n, <<>>) : n \in IntArgs}
    \cup {ThreadCall("where", c, 0, <<>>) : c \in Conditions}
    \cup {ThreadCall("select", "", 0, cols) : cols \in ColumnLists}
    \cup {ThreadCall("to_pandas", "", 0, <<>>)}

NoView == HologresQuery("none", "None", "vector", <<>>)

\* A thread: where it stands in its call, the object it is building (with
\* the list it holds), the SELECT list it has built, and what it returned.
NoThread ==
    [pc |-> "idle", call |-> ThreadCall("none", "", 0, <<>>), new |-> NoView,
     sel |-> <<>>, sql |-> <<>>, err |-> "none"]

NoThreads == [q |-> 0, before |-> NoView, t |-> [t \in Threads |-> NoThread]]

\* The assignment a refinement makes on the copy it returns.
assign(call, v) ==
    IF call.op = "limit" THEN [v EXCEPT !.limit_value = call.n]
    ELSE IF call.op = "offset" THEN [v EXCEPT !.offset_value = call.n]
    ELSE IF call.op = "where" THEN [v EXCEPT !.where_conditions = Append(@, call.s)]
    ELSE [v EXCEPT !.select_columns = [isNone |-> FALSE, cols |-> call.cols]]

\* The worker threads are handed the query object i.
share(i) ==
    /\ threads.q = 0
    /\ threads' = [threads EXCEPT !.q = i, !.before = View(queries[i], lists)]
    /\ UNCHANGED <<qvars, dbvars, httpvars>>

\* AsyncQuery: the call is scheduled on a worker thread.
run_in_executor(t, call) ==
    /\ threads.q # 0
    /\ threads.t[t].pc = "idle"
    /\ threads' = [threads EXCEPT !.t[t] =
            [NoThread EXCEPT !.call = call,
                             !.pc = IF call.op = "to_pandas" THEN "select" ELSE "fields"]]
    /\ UNCHANGED <<qvars, dbvars, httpvars>>

\* _copy, first part: the constructor, then limit, offset, a copy of the
\* where list and the projection are read from the shared object.
copy_fields(t) ==
    /\ threads.t[t].pc = "fields"
    /\ LET q == queries[threads.q]
       IN threads' = [threads EXCEPT !.t[t].pc = "order_by",
                                     !.t[t].new =
                [HologresQuery(q.query, q.vector_column_name, q.query_type,
                               lists[q.where_conditions])
                    EXCEPT !.limit_value = q.limit_value,
                           !.offset_value = q.offset_value,
                           !.select_columns = q.select_columns]]
    /\ UNCHANGED <<qvars, dbvars, httpvars>>

\* _copy, last part: _order_by is read from the shared object; the
\* refinement assigns its field on the copy and returns it.
copy_order_by(t) ==
    /\ threads.t[t].pc = "order_by"
    /\ LET th == threads.t[t]
       IN threads' = [threads EXCEPT !.t[t].pc = "done", !.t[t].err = "ok",
                                     !.t[t].new =
                assign(th.call, [th.new EXCEPT !.order_by = queries[threads.q].order_by])]
    /\ UNCHANGED <<qvars, dbvars, httpvars>>

\* _build_sql, first part: the SELECT list; on the vector branch the query
\* vector is checked and _order_by of the shared object is assigned.
build_select(t) ==
    /\ threads.t[t].pc = "select"
    /\ LET q == queries[threads.q]
       IN IF VectorSearch(q) /\ ensure_vector_query(q.query) # "ok"
          THEN /\ threads' = [threads EXCEPT !.t[t].pc = "done", !.t[t].err = "ValueError"]
               /\ UNCHANGED queries
          ELSE /\ threads' = [threads EXCEPT !.t[t].pc = "rest",
                                             !.t[t].sel = select_clause(q)]
               /\ queries' = [queries EXCEPT ![threads.q].order_by = order_by_after(q)]
    /\ UNCHANGED <<lists, hist, last, pre, outcome, dbvars, httpvars>>

\* _build_sql, second part: WHERE, ORDER BY, LIMIT and OFFSET are read from
\* the shared object and the statement is executed.
build_rest(t) ==
    /\ threads.t[t].pc = "rest"
    /\ LET q == queries[threads.q]
       IN threads' = [threads EXCEPT !.t[t].pc = "done", !.t[t].err = "ok",
                                     !.t[t].sql =
                assemble(threads.t[t].sel, where_clause(lists[q.where_conditions]),
                         order_by_clause(q.order_by), limit_clause(q), offset_clause(q))]
    /\ UNCHANGED <<qvars, dbvars, httpvars>>

\* The futures of all threads are awaited.
gather ==
    /\ \A t \in Threads : threads.t[t].pc = "done"
    /\ threads' = NoThreads
    /\ UNCHANGED <<qvars, dbvars, httpvars>>

ThreadInit == threads = NoThreads

NextThreads ==
    \/ \E i \in 1..Len(queries) : share(i)
    \/ \E t \in Threads, call \in ThreadCalls : run_in_executor(t, call)
    \/ \E t \in Threads : copy_fields(t)
    \/ \E t \in Threads : copy_order_by(t)
    \/ \E t \in Threads : build_select(t)
    \/ \E t \in Threads : build_rest(t)
    \/ gather

\* A shared query built by search() and at most one where() or limit(),
\* then calls on it from the worker threads.
NextShared ==
    \/ NextSearch
    \/ Len(queries) < MaxShared /\ \E i \in 1..Len(queries), c \in Conditions : where(i, c)
    \/ Len(queries) < MaxShared /\ \E i \in 1..Len(queries), n \in IntArgs : limit(i, n)
    \/ NextThreads

---------------------------------------------------------------------------
(* Specifications *)

InitQ == QueryInit /\ DbInit({LocalConn}) /\ HttpInit /\ LinkInit /\ ThreadInit
InitDB == QueryInit /\ DbInit(Conns) /\ HttpInit /\ LinkInit /\ ThreadInit
Init == InitDB
NextAsync ==
    \/ _make_async_request
    \/ \E answer \in Outcomes, caught \in BOOLEAN : async_session_request(answer, caught)
    \/ AsyncReturn
Next == NextQ \/ NextM \/ NextDB \/ NextT \/ NextHTTP \/ NextAsync \/ NextConnect \/ NextThreads

SpecQ == InitQ /\ [][NextQ]_vars
SpecM == InitQ /\ [][NextM]_vars
SpecDB == InitDB /\ [][NextDB]_vars
SpecT == InitDB /\ [][NextT]_vars
SpecHTTP == InitDB /\ [][NextHTTP]_vars
SpecConnect == InitQ /\ [][NextConnect]_vars
SpecRemote == InitQ /\ [][NextRemote]_vars
SpecShared == InitQ /\ [][NextShared]_vars
Spec == Init /\ [][Next]_vars

---------------------------------------------------------------------------
(* Reading a lowered statement back *)

ClauseOrder == <<"SELECT", "FROM", "WHERE", "ORDER BY", "LIMIT", "OFFSET">>

Rank(kw) == CHOOSE k \in 1..Len(ClauseOrder) : ClauseOrder[k] = kw

IsClause(tok) == tok.t = "clause"

\* The clause keywords of a statement, in the order they occur.
RECURSIVE ClausesOf(_)
ClausesOf(sql) ==
    IF sql = <<>> THEN <<>>
    ELSE (IF IsClause(Head(sql)) THEN <<Head(sql).s>> ELSE <<>>) \o ClausesOf(Tail(sql))

HasClause(sql, kw) == \E k \in 1..Len(sql) : sql[k] = Clause(kw)

\* The tokens that follow keyword kw up to the next clause keyword.
Segment(sql, kw) ==
    IF ~HasClause(sql, kw) THEN <<>>
    ELSE LET w == CHOOSE k \in 1..Len(sql) : sql[k] = Clause(kw)
             ends == {k \in (w + 1)..Len(sql) : IsClause(sql[k])}
             stop == IF ends = {} THEN Len(sql) + 1
                     ELSE CHOOSE k \in ends : \A m \in ends : k <= m
         IN SubSeq(sql, w + 1, stop - 1)

\* The distance expressions of a statement.
DistanceOf(sql) == SelectSeq(sql, LAMBDA tok : tok.t = "dist")

QueryIds == 1..Len(queries)
Lowered(i) == _build_sql(queries[i], lists)
ViewOf(i) == View(queries[i], lists)

FieldSet(op) ==
    CASE op = "limit" -> "limit_value"
      [] op = "offset" -> "offset_value"
      [] op = "where" -> "where_conditions"
      [] op = "select" -> "select_columns"
      [] op = "metric" -> "metric"
      [] op = "nprobes" -> "nprobes"
      [] op = "refine_factor" -> "refine_factor"

---------------------------------------------------------------------------
(* Claims *)

\* C1: the query returned by a refinement equals the receiver in every field
\* other than the one the refinement sets; a metric, nprobes or refine
\* factor set earlier in the chain is still set after a later refinement.
C1_RefinementFrame ==
    last.op \in Refinements =>
        \A f \in Fields \ {FieldSet(last.op)} : ViewOf(last.dst)[f] = pre[f]

\* C2: no refinement changes a field of any existing query object, its
\* receiver included, and q.where(c) holds exactly q's conditions followed
\* by c.
C2_NoReceiverMutation ==
    [][last'.op \in Refinements =>
          /\ \A i \in QueryIds : View(queries'[i], lists') = View(queries[i], lists)
          /\ last'.op = "where" =>
                View(queries'[last'.dst], lists').where_conditions
                    = Append(View(queries[last'.src], lists).where_conditions, last'.s)]_vars

\* Two where() branches with different predicates from one base query, the
\* second just returned.
C2_Witness ==
    /\ last.op = "where"
    /\ \E i \in QueryIds :
          /\ i # last.dst
          /\ hist[i].parent = last.src
          /\ Len(hist[i].calls) = Len(hist[last.src].calls) + 1
          /\ hist[i].calls # hist[last.dst].calls

\* C3: to_pandas, to_arrow and to_list leave every field of their receiver
\* as it was.
C3_MaterializationPure == last.op \in Materializations => ViewOf(last.src) = pre

\* C4: the WHERE clause of the lowered statement is the conjunction of the
\* where() arguments of the query's chain, in call order, none dropped.
C4_WhereCumulative ==
    \A i \in QueryIds :
        Lowered(i).err = "ok" =>
            LET calls == hist[i].calls
                seg == Segment(Lowered(i).sql, "WHERE")
                k == Len(calls)
            IN /\ HasClause(Lowered(i).sql, "WHERE") <=> k > 0
               /\ k > 0 => Len(seg) = 2 * k - 1
               /\ \A j \in 1..k : seg[2 * j - 1] = Txt(calls[j])
               /\ \A j \in 1..(k - 1) : seg[2 * j] = Sep("AND")

\* A chain where(c1).where(c2) with c1 # c2 whose lowering succeeds.
C4_Witness ==
    \E i \in QueryIds :
        /\ Len(hist[i].calls) = 2
        /\ hist[i].calls[1] # hist[i].calls[2]
        /\ Lowered(i).err = "ok"

\* C5: materializing a vector query (query_type "vector", a query vector)
\* that has no vector column raises, and sends nothing to the backend.
C5_NoVectorColumnFails ==
    (/\ last.op \in Materializations
     /\ pre.query_type = "vector"
     /\ pre.query = "vec"
     /\ pre.vector_column_name = "None")
        => outcome # "ok" /\ last.requests = <<>>

\* C6: two vector queries that differ only in the metric set by metric()
\* lower to statements with different distance expressions.
C6_MetricSelectsDistance ==
    \A i, j \in QueryIds :
        (/\ queries[i].metric \in Metrics
         /\ queries[j].metric \in Metrics
         /\ queries[i].metric # queries[j].metric
         /\ [ViewOf(i) EXCEPT !.metric = "unset"] = [ViewOf(j) EXCEPT !.metric = "unset"]
         /\ VectorSearch(queries[i])
         /\ Lowered(i).err = "ok")
            => DistanceOf(Lowered(i).sql) # DistanceOf(Lowered(j).sql)

\* C7: the lowered statement has ORDER BY _distance ASC exactly when the
\* query is a vector search with a vector column (no caller ordering
\* exists), and no ORDER BY otherwise, however often the object was lowered.
C7_OrderByDistance ==
    \A i \in QueryIds :
        Lowered(i).err = "ok" =>
            /\ HasClause(Lowered(i).sql, "ORDER BY") <=> VectorSearch(queries[i])
            /\ VectorSearch(queries[i]) =>
                  Segment(Lowered(i).sql, "ORDER BY") = <<Txt("_distance ASC")>>

\* A vector search lowered again after an earlier lowering left its ordering set.
C7_Witness ==
    /\ last.op \in Materializations
    /\ outcome = "ok"
    /\ VectorSearch(pre)
    /\ pre.order_by = "_distance ASC"
    /\ HasClause(last.requests[1], "ORDER BY")

\* C8: the clauses of a lowered statement occur in the order SELECT, FROM,
\* WHERE, ORDER BY, LIMIT, OFFSET, each at most once, SELECT and FROM
\* always, the others only when their parameter is set.
C8_ClauseOrder ==
    \A i \in QueryIds :
        Lowered(i).err = "ok" =>
            LET sql == Lowered(i).sql
                cs == ClausesOf(sql)
                q == ViewOf(i)
            IN /\ \A k \in 1..Len(cs) : \E r \in 1..Len(ClauseOrder) : ClauseOrder[r] = cs[k]
               /\ \A k \in 1..(Len(cs) - 1) : Rank(cs[k]) < Rank(cs[k + 1])
               /\ Len(cs) >= 2 /\ cs[1] = "SELECT" /\ cs[2] = "FROM"
               /\ HasClause(sql, "WHERE") => q.where_conditions # <<>>
               /\ HasClause(sql, "ORDER BY") => VectorSearch(q) \/ q.order_by # "None"
               /\ HasClause(sql, "LIMIT") => q.limit_value # None
               /\ HasClause(sql, "OFFSET") => q.offset_value # None

\* A vector search with a limit and an offset: five clauses in one statement.
C8_Witness ==
    \E i \in QueryIds :
        /\ Lowered(i).err = "ok"
        /\ ClausesOf(Lowered(i).sql) = <<"SELECT", "FROM", "ORDER BY", "LIMIT", "OFFSET">>

\* table_names() inside the last call returned a list holding the call's name.
NameWasListed ==
    /\ issued # <<>>
    /\ issued[1].op = "LIST"
    /\ dbcall.failAt # 1
    /\ dbpre[dbcall.name].exists

Changing == {"DROP", "CREATE", "INSERT", "DELETE"}

\* C9: create_table(mode="create", exist_ok=False) on a listed name raises
\* the already-exists error, on either connection, changes no table and
\* issues no drop, create or insert.
C9_CreateExistingFails ==
    (/\ dbcall.method = "create_table"
     /\ dbcall.mode = "create"
     /\ ~dbcall.exist_ok
     /\ NameWasListed)
        => /\ dbcall.err = "ValueError(already exists)"
           /\ tables = dbpre
           /\ \A k \in 1..Len(issued) : issued[k].op \notin Changing

\* The call made on a remote connection against a table that holds rows.
C9_Witness ==
    /\ conn.kind = "remote"
    /\ dbcall.method = "create_table"
    /\ dbcall.mode = "create"
    /\ ~dbcall.exist_ok
    /\ dbcall.data # NoData
    /\ NameWasListed
    /\ dbpre[dbcall.name].rows # <<>>
    /\ dbcall.err = "ValueError(already exists)"

\* C10: after a successful create_table(mode="overwrite") on an existing
\* name the table holds exactly the rows of data.
C10_OverwriteHoldsOnlyData ==
    (/\ dbcall.method = "create_table"
     /\ dbcall.mode = "overwrite"
     /\ dbpre[dbcall.name].exists
     /\ dbcall.err = "ok")
        => tables[dbcall.name] = Present(Flatten(dbcall.data.batches))

\* An overwrite that replaced rows by different rows.
C10_Witness ==
    /\ dbcall.method = "create_table"
    /\ dbcall.mode = "overwrite"
    /\ dbcall.err = "ok"
    /\ dbpre[dbcall.name].exists
    /\ dbpre[dbcall.name].rows # <<>>
    /\ Flatten(dbcall.data.batches) # <<>>
    /\ \A k \in 1..Len(dbpre[dbcall.name].rows) :
          \A m \in 1..Len(Flatten(dbcall.data.batches)) :
              dbpre[dbcall.name].rows[k] # Flatten(dbcall.data.batches)[m]

---------------------------------------------------------------------------
(* Claims on tables *)

\* The rows the last call handed to the backend for insertion, in order.
InsertedRows ==
    Flatten([k \in 1..Len(issued) |-> IF issued[k].op = "INSERT" THEN issued[k].rows ELSE <<>>])

DataRows == Flatten(dbcall.data.batches)
PreRows == dbpre[dbcall.name].rows
NowRows == tables[dbcall.name].rows

\* The outcome the last create_table call has with the given schema argument.
CreateResult(schemaGiven) ==
    IF conn.kind = "local"
    THEN local_create_table(conn, dbpre, dbcall.name, dbcall.data, schemaGiven,
                            dbcall.mode, dbcall.exist_ok, dbcall.failAt)
    ELSE remote_create_table(conn, dbpre, dbcall.name, dbcall.data, schemaGiven,
                             dbcall.mode, dbcall.exist_ok, dbcall.failAt)

\* C11: a successful create_table(mode="append") on an existing table of n
\* rows with data of m rows leaves n + m rows (the old rows, then data); the
\* table is opened, neither dropped nor created, and the schema argument
\* makes no difference.
C11_AppendAddsRows ==
    (/\ dbcall.method = "create_table"
     /\ dbcall.mode = "append"
     /\ dbpre[dbcall.name].exists
     /\ dbcall.err = "ok")
        => /\ Len(NowRows) = Len(PreRows) + Len(DataRows)
           /\ NowRows = PreRows \o DataRows
           /\ \A k \in 1..Len(issued) : issued[k].op \notin {"DROP", "CREATE", "DELETE"}
           /\ \E k \in 1..Len(issued) : issued[k].op \in {"COLUMNS", "GET"}
           /\ CreateResult(TRUE) = CreateResult(FALSE)

\* An append of rows to a table that held rows.
C11_Witness ==
    /\ dbcall.method = "create_table"
    /\ dbcall.mode = "append"
    /\ dbcall.err = "ok"
    /\ dbpre[dbcall.name].exists
    /\ PreRows # <<>>
    /\ DataRows # <<>>

\* table_names() would have returned a list without the call's name.
NameNotListed ==
    /\ conn.database
    /\ dbcall.failAt # 1
    /\ ~dbpre[dbcall.name].exists

C13_AddModes ==
    (dbcall.method = "add" /\ dbcall.err = "ok")
        => /\ (dbcall.mode = "overwrite" /\ dbcall.args.on_bad_vectors = "error")
                => NowRows = DataRows
           /\ dbcall.mode = "append"
                => /\ Len(NowRows) >= Len(PreRows)
                   /\ SubSeq(NowRows, 1, Len(PreRows)) = PreRows

WrongVector(r) == r.vec # VectorDim

\* C14: add(on_bad_vectors="error") on data holding a row whose vector has
\* the wrong dimension raises the validation error and hands no row of the
\* data to the backend, whatever the batch the bad row is in.
C14_ErrorRejectsAll ==
    (/\ dbcall.method = "add"
     /\ dbcall.args.on_bad_vectors = "error"
     /\ dbcall.failAt = 0
     /\ \E k \in 1..Len(DataRows) : WrongVector(DataRows[k]))
        => /\ dbcall.err = "ValueError(bad vector)"
           /\ InsertedRows = <<>>

\* C15: a successful add(on_bad_vectors="drop") inserts exactly the rows
\* whose vector has the column's dimension, unchanged and in order.
C15_DropRemovesOffending ==
    (/\ dbcall.method = "add"
     /\ dbcall.args.on_bad_vectors = "drop"
     /\ dbcall.failAt = 0
     /\ dbcall.err = "ok")
        => InsertedRows = SelectSeq(DataRows, LAMBDA r : ~WrongVector(r))

\* C16: a successful add(on_bad_vectors="fill") inserts every row, a row
\* with a wrong vector carrying fill_value repeated VectorDim times.
C16_FillUsesColumnDimension ==
    (/\ dbcall.method = "add"
     /\ dbcall.args.on_bad_vectors = "fill"
     /\ dbcall.failAt = 0
     /\ dbcall.err = "ok")
        => InsertedRows =
              [k \in 1..Len(DataRows) |->
                  IF WrongVector(DataRows[k]) THEN Row(DataRows[k].id, VectorDim, TRUE)
                  ELSE DataRows[k]]

\* C17: when add raises because of an invalid vector, nothing was sent to
\* the backend by that call and the table holds the rows it held before.
C17_ValidationBeforeBackend ==
    (dbcall.method = "add" /\ dbcall.err = "ValueError(bad vector)")
        => issued = <<>> /\ tables = dbpre

\* C18: update with neither values nor values_sql raises before anything is
\* sent and changes no row; with one of them it sends exactly one UPDATE
\* whose SET list is the entries of values, then those of values_sql, with a
\* WHERE clause exactly when where is given.
C18_UpdateStatement ==
    dbcall.method = "update" =>
        LET a == dbcall.args
            given == DictTruthy(a.values) \/ DictTruthy(a.values_sql)
        IN /\ ~given => /\ dbcall.err = "ValueError(values required)"
                        /\ issued = <<>>
                        /\ tables = dbpre
           /\ (given /\ dbcall.failAt = 0) =>
                /\ dbcall.err = "ok"
                /\ Len(issued) = 1
                /\ issued[1].op = "UPDATE"
                /\ Segment(issued[1].sql, "SET")
                     = JoinTokens([k \in 1..Len(a.values.cols) |-> Param(a.values.cols[k])]
                                  \o [k \in 1..Len(a.values_sql.cols) |-> Expr(a.values_sql.cols[k])],
                                  Sep(","))
                /\ HasClause(issued[1].sql, "WHERE") <=> WhereTruthy(a.whr)
                /\ WhereTruthy(a.whr) => Segment(issued[1].sql, "WHERE") = <<Txt(a.whr)>>

---------------------------------------------------------------------------
(* Claims on the HTTP client *)

\* Every attempt so far ended in a JSON answer, a connection error, an
\* error status or a timeout.
PlainAttempts == \A k \in 1..Len(http.attempts) : http.attempts[k] \in Failures \cup {"ok"}

AllFailed == \A k \in 1..Len(http.attempts) : http.attempts[k] \in Failures

\* C19: a call whose first k attempts fail and whose next one succeeds is
\* attempted k + 1 times (k <= max_retries) and returns; a call whose
\* attempts all fail is attempted max_retries + 1 times and raises the last
\* failure; nothing is attempted after a success.
C19_AttemptCount ==
    LET n == Len(http.attempts)
    IN PlainAttempts =>
        /\ http.status = "returned" =>
              /\ n >= 1 /\ http.attempts[n] = "ok"
              /\ \A k \in 1..(n - 1) : http.attempts[k] \in Failures
              /\ n - 1 <= http.max_retries
        /\ http.status = "raised" =>
              /\ n = http.max_retries + 1
              /\ AllFailed
              /\ http.error = http.attempts[n]
        /\ http.status = "running" =>
              /\ AllFailed
              /\ n <= http.max_retries
              /\ http.attempt = n

\* fail, fail, success with max_retries = 3: three attempts.
C19_Witness ==
    /\ http.status = "returned"
    /\ http.max_retries = 3
    /\ http.attempts = <<"ConnectionError", "HTTPError", "ok">>

\* C20: the waits of one call are retry_delay, 2 * retry_delay,
\* 4 * retry_delay, ..., one after each failed attempt that is followed by
\* another attempt, none after a success or after the final failure.
C20_Backoff ==
    LET n == Len(http.attempts)
    IN /\ http.waits = [k \in 1..Len(http.waits) |-> http.retry_delay * (2 ^ (k - 1))]
       /\ Len(http.waits) = IF http.status = "running" \/ n = 0 THEN n ELSE n - 1

\* Three failures, so three waits, of a client with a non-zero delay.
C20_Witness ==
    /\ http.retry_delay = 2
    /\ http.status \in {"returned", "raised"}
    /\ Len(http.attempts) = 4
    /\ http.waits = <<2, 4, 8>>

---------------------------------------------------------------------------
(* Claims on failed and repeated creation, renaming and zero limits *)

\* C26: rename_table on a remote connection raises the not-implemented
\* error for every pair of names, sends nothing to the HTTP API and leaves
\* every table as it was.
C26_RemoteRenameUnsupported ==
    (conn.kind = "remote" /\ dbcall.method = "rename_table")
        => /\ dbcall.err = "NotImplementedError"
           /\ issued = <<>>
           /\ tables = dbpre

\* A remote rename of an existing table to a free name.
C26_Witness ==
    /\ conn.kind = "remote"
    /\ dbcall.method = "rename_table"
    /\ dbpre[dbcall.name].exists
    /\ ~dbpre[dbcall.new_name].exists
    /\ dbcall.err = "NotImplementedError"

\* C28: a create_table call that raises, the backend itself answering every
\* statement, leaves the table names and the rows of every table as they
\* were, in every mode.
C28_FailedCreateChangesNothing ==
    (/\ dbcall.method = "create_table"
     /\ dbcall.failAt = 0
     /\ dbcall.err # "ok")
        => tables = dbpre

\* C29: create_table(mode="create", exist_ok=True) on a listed name raises
\* nothing, leaves the rows of the table as they were and inserts none of
\* data.
C29_ExistOkReturnsExisting ==
    (/\ dbcall.method = "create_table"
     /\ dbcall.mode = "create"
     /\ dbcall.exist_ok
     /\ NameWasListed)
        => /\ dbcall.err = "ok"
           /\ tables = dbpre
           /\ InsertedRows = <<>>

\* C30: a limit or an offset that was set, 0 included, appears in the
\* lowered statement as LIMIT n, OFFSET n.
C30_ZeroIsSet ==
    \A i \in QueryIds :
        Lowered(i).err = "ok" =>
            /\ queries[i].limit_value # None
                  => Segment(Lowered(i).sql, "LIMIT") = <<Num(queries[i].limit_value)>>
            /\ queries[i].offset_value # None
                  => Segment(Lowered(i).sql, "OFFSET") = <<Num(queries[i].offset_value)>>

---------------------------------------------------------------------------
(* Claims on the capability set *)

Capabilities == TableOps \cup {"add", "update"}

\* The exception the local table raises for the last call, made on the same
\* rows with the same arguments ("ok": none).
LocalOutcome ==
    LET a == dbcall.args
        st == Start(dbpre)
    IN IF dbcall.method = "add"
       THEN local_add(LocalConn, st, dbcall.name, dbcall.data, dbcall.mode,
                      a.on_bad_vectors, dbcall.failAt).err
       ELSE IF dbcall.method = "update"
       THEN local_update(LocalConn, st, dbcall.name, a.whr, a.values, a.values_sql,
                         dbcall.failAt).err
       ELSE local_table_op(LocalConn, st, dbcall.method, dbcall.name, dbcall.failAt).err

\* C22: every Table operation that succeeds on the local table also succeeds
\* on the remote table and sends at least one request to the HTTP API; none
\* fails for want of the operation.
C22_RemoteCapabilities ==
    (/\ conn.kind = "remote"
     /\ dbcall.method \in Capabilities
     /\ LocalOutcome = "ok")
        => /\ dbcall.err = "ok"
           /\ issued # <<>>

---------------------------------------------------------------------------
(* Claims on connecting and closing *)

\* Whether the keyword argument of component f was passed to connect.
Passed(f) ==
    IF f = "port" THEN link.call.args.port # DefaultPort ELSE link.call.args[f] # "None"

\* C24: for a postgresql:// or postgres:// URI, each of username, password,
\* host, port and database in the connection string given to the engine is
\* the keyword argument when one is passed and the URI's component
\* otherwise.
C24_ExplicitParametersWin ==
    (link.kind = "local" /\ IsPostgres(link.call.uri)) =>
        \A f \in Components :
            link.engine_url[f] = IF Passed(f) THEN link.call.args[f] ELSE link.call.uri.url[f]

\* C25: connect on a holo:// URI hands the client the api_key argument when
\* one is passed and HOLOGRES_API_KEY only otherwise; with neither it raises
\* ValueError and has created no connection, client or pool.
C25_ApiKeyResolution ==
    (link.call.uri.scheme = "holo" /\ link.err # "none") =>
        LET c == link.call
        IN /\ c.api_key # NoKey => (link.err = "ok" /\ link.api_key = c.api_key)
           /\ (c.api_key = NoKey /\ c.env # NoKey) => (link.err = "ok" /\ link.api_key = c.env)
           /\ (c.api_key = NoKey /\ c.env = NoKey) =>
                 /\ link.err = "ValueError(api_key)"
                 /\ link.kind = "none"
                 /\ link.created = {}
                 /\ link.thread_pool = "none"

\* A key is passed while the environment holds another one.
C25_Witness ==
    /\ link.kind = "remote"
    /\ link.call.api_key = "k1" /\ link.call.env = "k2"
    /\ link.api_key = "k1"

\* C21: after close() on a remote connection the pool it owns is shut down,
\* the requests session is closed and the aiohttp session, if one was
\* opened, is closed.
C21_CloseReleasesAll ==
    (link.kind = "remote" /\ link.closed = "close") =>
        /\ link.owns_thread_pool => link.thread_pool = "shutdown"
        /\ http.session = "closed"
        /\ http.async_session \in {"none", "closed"}

---------------------------------------------------------------------------
(* Claims on the asynchronous request path *)

Prefix(a, b) == Len(a) <= Len(b) /\ a = SubSeq(b, 1, Len(a))

\* C27: given the same attempt outcomes, _make_async_request makes the same
\* attempts, sleeps the same delays and ends with the same result as
\* _make_request.
C27_AsyncLikeSync ==
    (/\ http.status \in {"returned", "raised"}
     /\ ahttp.status \in {"returned", "raised"}
     /\ PlainAttempts
     /\ \A k \in 1..Len(ahttp.attempts) : ahttp.attempts[k] \in Failures \cup {"ok"}
     /\ Prefix(http.attempts, ahttp.attempts) \/ Prefix(ahttp.attempts, http.attempts))
        => /\ ahttp.attempts = http.attempts
           /\ ahttp.waits = http.waits
           /\ ahttp.status = http.status
           /\ ahttp.status = "raised" => ahttp.attempts[Len(ahttp.attempts)] = http.error

---------------------------------------------------------------------------
(* Claims on concurrent calls *)

\* The shared query with _order_by as a serial run has left it.
SharedWith(ob) == [queries[threads.q] EXCEPT !.order_by = ob]

\* What a call returns when it runs alone on the shared query, and the
\* _order_by it leaves there.
Alone(call, ob) ==
    LET q == SharedWith(ob)
    IN IF call.op = "to_pandas"
       THEN LET r == _build_sql(q, lists)
            IN [err |-> r.err, new |-> NoView, sql |-> r.sql, order_by |-> r.order_by]
       ELSE LET c == _copy(q, lists)
            IN [err |-> "ok", new |-> assign(call, View(c.q, c.ls)), sql |-> <<>>,
                order_by |-> ob]

Same(th, r) == th.err = r.err /\ th.new = r.new /\ th.sql = r.sql

\* The threads' results are those of the run: first thread a, then thread b.
Serial(a, b) ==
    LET ra == Alone(threads.t[a].call, threads.before.order_by)
        rb == Alone(threads.t[b].call, ra.order_by)
    IN Same(threads.t[a], ra) /\ Same(threads.t[b], rb)

AllDone == \A t \in Threads : threads.t[t].pc = "done"

\* C23: when the calls of all threads have returned, what they returned is
\* what the calls give in one of the two serial orders, and the shared
\* query has the fields it had before.
C23_ConcurrentCallsSafe ==
    AllDone =>
        /\ Serial(1, 2) \/ Serial(2, 1)
        /\ View(queries[threads.q], lists) = threads.before

====
